---- MODULE Spec2Model ----
(***************************************************************************)
(* Model of Lib/ThreadTest/ThreadTest.cpp (WAVM): the "threadTest"         *)
(* intrinsic module that lets WebAssembly code create, fork, exit, join    *)
(* and detach native threads.                                              *)
(*                                                                         *)
(* OS threads are numbered 1..NumOSThreads; OS thread 1 is the host thread *)
(* that first enters WebAssembly code (it has no Thread object), and the   *)
(* OS thread of Thread object o is HandleFor(o).  Every statement that     *)
(* touches state shared between OS threads (the registry `threads`, the    *)
(* mutex, a Thread's fields) is a step of its own, so that the steps of    *)
(* different OS threads interleave as the code's do; statements that touch *)
(* only what no other OS thread can reach yet (a Thread just made, the     *)
(* locals) are part of the step that follows or precedes them, and so is   *)
(* the release of the mutex.                                               *)
(*                                                                         *)
(* Undefined behaviour:                                                    *)
(*  - a load from a deleted Thread yields any of FreedValues;              *)
(*  - Platform::joinThread/detachThread dereference the handle they get,   *)
(*    so a null handle ends the process (fault = "nullHandle");            *)
(*  - whether Platform::exitThread runs the destructor of the thread_local *)
(*    currentThread is not decided by this file: both outcomes are taken.  *)
(***************************************************************************)
EXTENDS Integers, Sequences, FiniteSets, TLC

\* ------------------------------------------------------------------ bounds
\* Number of Thread objects (and so of spawned OS threads) a run may create.
MaxThreads == 2
\* Number of intrinsic calls WebAssembly code makes in a run, all OS threads
\* together.
MaxCalls == 3

\* ------------------------------------------------------- program constants
\* UINTPTR_MAX: Thread::id of an unregistered Thread, and the IndexMap's
\* largest index.  It stands for 2^64-1; the value is the largest integer
\* the model checker represents.
UINTPTR_MAX == 2147483647
\* IndexMap<Uptr, ...> threads(1, UINTPTR_MAX): the smallest index.
MinIndex == 1

NULL == 0
Objs == 1..MaxThreads
NumOSThreads == MaxThreads + 1
OSThreads == 1..NumOSThreads
\* The OS thread that is not made by createThread/forkThread: the first one.
HostThread == NumOSThreads - MaxThreads
\* The indices the registry can hold within the bound on Thread objects.
Ids == MinIndex..(MinIndex + MaxThreads - 1)
\* The thread ids WebAssembly code passes to joinThread/detachThread.
IdArgs == 0..(MinIndex + MaxThreads)

\* Entry functions WebAssembly code may pass: "dbl" is f(x) = x*2 of type
\* (i32)->i64, "wide" has type (i64)->i64, "null" is the null reference.
Funcs == {"dbl", "wide", "null"}
Args == {42}
ExitCodes == {7}

FunctionTypeOf(f) ==
    IF f = "dbl" THEN <<"i64", "i32">> ELSE <<"i64", "i64">>

\* The i64 an entry function produces for its argument.
Apply(f, x) == IF f = "dbl" THEN x * 2 ELSE x

VARIABLES
    threads,        \* the registry: index -> Thread object, NULL if free
    threadsMutex,   \* OS thread that holds threadsMutex, NULL if none
    objs,           \* the Thread objects
    currentThread,  \* per OS thread: thread_local currentThread
    contextRuntimeData, \* per OS thread: the context it executes in
    os,             \* per OS thread: platform state
    pc,             \* per OS thread: position in the code
    local,          \* per OS thread: locals of the intrinsic being run
    frame,          \* per OS thread: the entry-function call on its stack
    ret,            \* per OS thread: outcome of its last intrinsic call
    fault,          \* "none", or why the process died
    uaf,            \* accesses made to a Thread after its deletion
    hist,           \* per Thread object: what happened to it (bookkeeping)
    calls           \* number of intrinsic calls made so far

vars == <<threads, threadsMutex, objs, currentThread, contextRuntimeData, os,
          pc, local, frame, ret, fault, uaf, hist, calls>>

NoLocal == [thread |-> NULL, threadId |-> 0, handle |-> NULL, result |-> 0,
            caller |-> "none"]
\* Outcome of an intrinsic call: the value returned or the exception thrown;
\* arg is the thread id passed, obj the Thread object the call was about.
Ret(op, arg, val, err, obj) ==
    [op |-> op, arg |-> arg, val |-> val, err |-> err, obj |-> obj]
NoRet == Ret("none", 0, 0, "none", NULL)
NoFrame == [fn |-> "null", arg |-> 0]

\* struct Thread, before `new Thread`.
FreeObj == [state |-> "free", id |-> UINTPTR_MAX, numRefs |-> 0,
            platformThread |-> NULL, context |-> NULL,
            entryFunction |-> "null", argument |-> 0]

NoHist == [removed |-> 0, destroyed |-> 0, allocId |-> 0, mappedAtCall |-> {},
           forked |-> FALSE, parent |-> NULL,
           parentRet |-> <<>>, childRet |-> <<>>, passed |-> <<>>]

Init ==
    /\ threads = [k \in Ids |-> NULL]
    /\ threadsMutex = NULL
    /\ objs = [o \in Objs |-> FreeObj]
    /\ currentThread = [t \in OSThreads |-> NULL]
    /\ contextRuntimeData = [t \in OSThreads |-> NULL]
    /\ os = [t \in OSThreads |->
               [status |-> IF t = HostThread THEN "running" ELSE "unused",
                exitCode |-> 0, exitKind |-> "none", handle |-> "none"]]
    /\ pc = [t \in OSThreads |-> IF t = HostThread THEN "guest" ELSE "none"]
    /\ local = [t \in OSThreads |-> NoLocal]
    /\ frame = [t \in OSThreads |-> NoFrame]
    /\ ret = [t \in OSThreads |-> NoRet]
    /\ fault = "none"
    /\ uaf = {}
    /\ hist = [o \in Objs |-> NoHist]
    /\ calls = 0

\* ----------------------------------------------------------------- helpers
Mapped == {k \in Ids : threads[k] # NULL}
Registered == {threads[k] : k \in Mapped}
FreeSlots == {o \in Objs : objs[o].state = "free"}
\* `new Thread`: the next object never allocated before.
NewObj == CHOOSE o \in FreeSlots : \A p \in FreeSlots : o <= p
\* The platform thread (handle) that is created for Thread object o.
HandleFor(o) == o + 1
\* What a load from a deleted Thread may produce.
FreedValues == {0, UINTPTR_MAX} \cup Ids

Running(t) == fault = "none" /\ os[t].status = "running"

\* OS thread t runs WebAssembly code and calls an intrinsic.
Calls(t) ==
    /\ Running(t) /\ pc[t] = "guest"
    /\ calls < MaxCalls
    /\ calls' = calls + 1

\* Faulty variant of MutexAvailable: the lock excludes nobody.
MutexAvailable_NoExclusion(t) == TRUE

\* Lock<Platform::Mutex> threadsLock(threadsMutex): may OS thread t take it?
MutexAvailable(t) == threadsMutex = NULL

\* Faulty variant of threadsLockReleased: leaving the scope does not release
\* the mutex.
threadsLockReleased_Held(t) == t

\* ~Lock<Platform::Mutex>(): the holder of threadsMutex once OS thread t has
\* left the scope of threadsLock, by return or by exception.
threadsLockReleased(t) == NULL

\* Records an access to Thread o: it is a use after free if o was deleted.
Access(o, what) ==
    IF o # NULL /\ objs[o].state = "destroyed" THEN uaf \cup {what} ELSE uaf

\* Faulty variant of NewThread: the id of a new Thread is zero instead of
\* UINTPTR_MAX.
NewThread_ZeroId(inContext, inEntryFunction, inArgument) ==
    [state |-> "live", id |-> 0, numRefs |-> 0,
     platformThread |-> NULL, context |-> inContext,
     entryFunction |-> inEntryFunction, argument |-> inArgument]

\* Thread::Thread(inContext, inEntryFunction, inArgument)
NewThread(inContext, inEntryFunction, inArgument) ==
    [state |-> "live", id |-> UINTPTR_MAX, numRefs |-> 0,
     platformThread |-> NULL, context |-> inContext,
     entryFunction |-> inEntryFunction, argument |-> inArgument]

\* Faulty variant of addRef: the count grows by twice the delta.
addRef_Twice(o, delta) == [objs EXCEPT ![o].numRefs = @ + 2 * delta]

\* Thread::addRef(delta)
addRef(o, delta) == [objs EXCEPT ![o].numRefs = @ + delta]

\* Faulty variant of removeRef: the Thread is deleted when one reference
\* is still left.
removeRef_DeleteAtOne(o) ==
    LET n == IF objs[o].numRefs = 0 THEN UINTPTR_MAX ELSE objs[o].numRefs - 1
    IN  [objs EXCEPT ![o].numRefs = n,
                     ![o].state = IF n <= 1 THEN "destroyed" ELSE @]

\* Thread::removeRef(): if(--numRefs == 0) { delete this; }
removeRef(o) ==
    LET n == IF objs[o].numRefs = 0 THEN UINTPTR_MAX ELSE objs[o].numRefs - 1
    IN  [objs EXCEPT ![o].numRefs = n,
                     ![o].state = IF n = 0 THEN "destroyed" ELSE @]

\* Bookkeeping of deletions, from the Thread objects before and after a step.
HistDeleted(newObjs) ==
    [o \in Objs |->
        IF newObjs[o].state = "destroyed"
           /\ (objs[o].state # "destroyed"
               \/ (newObjs[o].numRefs = 0 /\ objs[o].numRefs # 0))
        THEN [hist[o] EXCEPT !.destroyed = @ + 1]
        ELSE hist[o]]

\* Faulty variant of SignatureOk: only the null check is made.
SignatureOk_NullCheckOnly(entryFunction) == entryFunction # "null"

\* createThread's check of the entry function: non-null and (i32)->i64.
SignatureOk(entryFunction) ==
    /\ entryFunction # "null"
    /\ FunctionTypeOf(entryFunction) = <<"i64", "i32">>

\* Faulty variant of validateThreadId: only zero is rejected.
validateThreadId_ZeroOnly(threadId) == threadId # 0

\* validateThreadId: threadId != 0 && threads.contains(threadId)
validateThreadId(threadId) ==
    ~(threadId = 0 \/ ~(threadId \in Ids /\ threads[threadId] # NULL))

\* Faulty variant of removeOrFail: the index stays in the registry.
removeOrFail_Keep(threadId) == threads

\* threads.removeOrFail(threadId): the registry without the index.
removeOrFail(threadId) == [threads EXCEPT ![threadId] = NULL]

\* Faulty variant of ForkChild: the child gets a fresh argument instead of
\* the parent's.
ForkChild_FreshArgument(newContext, parent) ==
    NewThread(newContext, objs[parent].entryFunction, 0)

\* Faulty variant of ForkChild: the child gets the parent's context instead
\* of the clone.
ForkChild_ParentContext(newContext, parent) ==
    NewThread(objs[parent].context, objs[parent].entryFunction,
              objs[parent].argument)

\* forkThread: new Thread(newContext, currentThread->entryFunction,
\*                        currentThread->argument)
ForkChild(newContext, parent) ==
    NewThread(newContext, objs[parent].entryFunction, objs[parent].argument)

\* Faulty variant of threadEntryResult: the thread's exit code is the
\* argument, not the result.
threadEntryResult_Argument(t) == frame[t].arg

\* threadEntry: invokeFunctionUnchecked(...)->i64, the result of the entry
\* function on the stack of OS thread t.
threadEntryResult(t) == Apply(frame[t].fn, frame[t].arg)

\* Faulty variant of threadsAdd: the Thread is stored at the smallest index
\* of the registry, whatever index is returned.
threadsAdd_AtMinIndex(index, o) == [threads EXCEPT ![MinIndex] = o]

\* Faulty variant of threadsAdd: the Thread is not stored.
threadsAdd_Drop(index, o) == threads

\* allocateThreadId: threads.add(0, thread) stores the Thread in the registry,
\* at the index it returns.
threadsAdd(index, o) == [threads EXCEPT ![index] = o]

\* IndexMap::add(failIndex = 0, value): the index the value is stored at.
IndexMapAdd ==
    IF \E k \in Ids : threads[k] = NULL
    THEN CHOOSE k \in Ids : threads[k] = NULL
                            /\ \A j \in Ids : threads[j] = NULL => k <= j
    ELSE 0

\* ------------------------------------------------------------ createThread
CreateThread(t, entryFunction, entryArgument) ==
    /\ Calls(t)
    /\ IF ~SignatureOk(entryFunction)
       THEN /\ ret' = [ret EXCEPT ![t] = Ret("createThread", 0, 0,
                    "SignatureMismatch", NULL)]
            /\ UNCHANGED <<threads, threadsMutex, objs, currentThread,
                           contextRuntimeData, os, pc, local, frame, fault,
                           uaf, hist>>
       ELSE /\ FreeSlots # {}
            /\ LET o == NewObj IN
               /\ objs' = [objs EXCEPT
                             ![o] = NewThread(o, entryFunction, entryArgument)]
               /\ local' = [local EXCEPT ![t] = [NoLocal EXCEPT
                                !.thread = o, !.caller = "createThread"]]
               /\ hist' = [hist EXCEPT ![o].mappedAtCall = Mapped]
            /\ pc' = [pc EXCEPT ![t] = "alloc_lock"]
            /\ ret' = [ret EXCEPT ![t] = NoRet]
            /\ UNCHANGED <<threads, threadsMutex, currentThread,
                           contextRuntimeData, os, frame, fault, uaf>>

\* -------------------------------------------------------- allocateThreadId
AllocLock(t) ==
    /\ Running(t) /\ pc[t] = "alloc_lock"
    /\ MutexAvailable(t)
    /\ threadsMutex' = t
    /\ pc' = [pc EXCEPT ![t] = "alloc_add"]
    /\ UNCHANGED <<threads, objs, currentThread, contextRuntimeData, os,
                   local, frame, ret, fault, uaf, hist, calls>>

\* thread->id = threads.add(0, thread); errorUnless(thread->id != 0);
\* return thread->id; and the Lock's destructor.
AllocAdd(t) ==
    /\ Running(t) /\ pc[t] = "alloc_add"
    /\ LET o == local[t].thread
           index == IndexMapAdd
       IN  IF index = 0
           THEN /\ objs' = [objs EXCEPT ![o].id = 0]
                /\ fault' = "errorUnless"
                /\ UNCHANGED <<threads, threadsMutex, hist, pc, local>>
           ELSE /\ threads' = threadsAdd(index, o)
                /\ objs' = [addRef(o, 1) EXCEPT ![o].id = index]
                /\ hist' = [hist EXCEPT ![o].allocId = index]
                /\ threadsMutex' = threadsLockReleased(t)
                /\ IF local[t].caller = "createThread"
                   THEN /\ pc' = [pc EXCEPT ![t] = "create_spawn"]
                        /\ UNCHANGED local
                   ELSE /\ pc' = [pc EXCEPT ![t] = "fork_parent_return"]
                        /\ local' = [local EXCEPT ![t].threadId = index]
                /\ UNCHANGED fault
    /\ UNCHANGED <<currentThread, contextRuntimeData, os, frame, ret, uaf,
                   calls>>

\* thread->addRef();
\* Platform::createThread(numStackBytes, threadEntry, thread)
CreateSpawn(t) ==
    /\ Running(t) /\ pc[t] = "create_spawn"
    /\ LET o == local[t].thread
           h == HandleFor(o)
       IN  /\ objs' = addRef(o, 1)
           /\ uaf' = Access(o, "createThread:addRef")
           /\ os' = [os EXCEPT ![h].status = "running",
                               ![h].handle = "joinable"]
           /\ pc' = [pc EXCEPT ![t] = "create_store", ![h] = "entry_set"]
           /\ local' = [local EXCEPT ![t].handle = h,
                                     ![h] = [NoLocal EXCEPT !.thread = o]]
    /\ UNCHANGED <<threads, threadsMutex, currentThread, contextRuntimeData,
                   frame, ret, fault, hist, calls>>

\* thread->platformThread = <the handle Platform::createThread returned>;
CreateStore(t) ==
    /\ Running(t) /\ pc[t] = "create_store"
    /\ LET o == local[t].thread IN
       /\ objs' = IF objs[o].state = "destroyed" THEN objs
                  ELSE [objs EXCEPT ![o].platformThread = local[t].handle]
       /\ uaf' = Access(o, "createThread:platformThread")
    /\ pc' = [pc EXCEPT ![t] = "create_return"]
    /\ UNCHANGED <<threads, threadsMutex, currentThread, contextRuntimeData,
                   os, local, frame, ret, fault, hist, calls>>

\* The values `thread->id` may load.
ReadId(o) == IF objs[o].state = "destroyed" THEN FreedValues ELSE {objs[o].id}

\* return thread->id;
CreateReturn(t) ==
    /\ Running(t) /\ pc[t] = "create_return"
    /\ LET o == local[t].thread IN
       /\ \E v \in ReadId(o) :
            ret' = [ret EXCEPT ![t] = Ret("createThread", 0, v,
                    "none", o)]
       /\ uaf' = Access(o, "createThread:id")
    /\ pc' = [pc EXCEPT ![t] = "guest"]
    /\ local' = [local EXCEPT ![t] = NoLocal]
    /\ UNCHANGED <<threads, threadsMutex, objs, currentThread,
                   contextRuntimeData, os, frame, fault, hist, calls>>

\* ------------------------------------------------------------- threadEntry
\* currentThread = thread;
EntrySet(t) ==
    /\ Running(t) /\ pc[t] = "entry_set"
    /\ currentThread' = [currentThread EXCEPT ![t] = local[t].thread]
    /\ objs' = addRef(local[t].thread, 1)
    /\ uaf' = Access(local[t].thread, "threadEntry:addRef")
    /\ pc' = [pc EXCEPT ![t] = "entry_removeRef"]
    /\ UNCHANGED <<threads, threadsMutex, contextRuntimeData, os, local,
                   frame, ret, fault, hist, calls>>

\* thread->removeRef(); invokeFunctionUnchecked(thread->context,
\* thread->entryFunction, &thread->argument)
EntryRemoveRef(t) ==
    /\ Running(t) /\ pc[t] = "entry_removeRef"
    /\ LET o == local[t].thread
           newObjs == removeRef(o)
       IN  /\ objs' = newObjs
           /\ hist' = HistDeleted(newObjs)
           /\ uaf' = IF newObjs[o].state = "destroyed"
                     THEN uaf \cup {"threadEntry:invoke"} ELSE uaf
           /\ frame' = [frame EXCEPT ![t] = [fn |-> objs[o].entryFunction,
                                             arg |-> objs[o].argument]]
           /\ contextRuntimeData' =
                  [contextRuntimeData EXCEPT ![t] = objs[o].context]
    /\ pc' = [pc EXCEPT ![t] = "guest"]
    /\ local' = [local EXCEPT ![t] = NoLocal]
    /\ UNCHANGED <<threads, threadsMutex, currentThread, os, ret, fault, calls>>

\* End of an OS thread: its thread_local currentThread is destroyed when
\* `release` holds.
EndThread(t, code, kind, release) ==
    /\ os' = [os EXCEPT ![t].status = "terminated", ![t].exitCode = code,
                        ![t].exitKind = kind]
    /\ pc' = [pc EXCEPT ![t] = "done"]
    /\ IF release /\ currentThread[t] # NULL
       THEN LET newObjs == removeRef(currentThread[t]) IN
            /\ objs' = newObjs
            /\ hist' = HistDeleted(newObjs)
            /\ currentThread' = [currentThread EXCEPT ![t] = NULL]
       ELSE UNCHANGED <<objs, hist, currentThread>>
    /\ UNCHANGED <<threads, threadsMutex, contextRuntimeData, local, frame,
                   ret, fault, uaf>>

\* The entry function returns to threadEntry, which returns its i64 result.
EntryReturn(t) ==
    /\ Running(t) /\ pc[t] = "guest"
    /\ frame[t] # NoFrame
    /\ EndThread(t, threadEntryResult(t), "return", TRUE)
    /\ UNCHANGED calls

\* -------------------------------------------------------------- exitThread
\* Platform::exitThread(code)
ExitThread(t, code) ==
    /\ Calls(t)
    /\ \E release \in BOOLEAN : EndThread(t, code, "exit", release)

\* -------------------------------------------------------------- forkThread
\* cloneContext; wavmAssert(currentThread);
\* childThread = new Thread(newContext, currentThread->entryFunction,
\*                          currentThread->argument);
\* childThread->addRef(2);
\* Platform::forkCurrentThread(): a new OS thread resumes at the same place
\* on a copy of the stack, with its own (empty) thread_local currentThread.
\* Nothing before the fork is visible to another OS thread, so it is one step.
ForkThread(t) ==
    /\ Calls(t)
    /\ currentThread[t] # NULL
    /\ FreeSlots # {}
    /\ LET c == NewObj
           parent == currentThread[t]
           h == HandleFor(c)
           childLocal == [NoLocal EXCEPT !.thread = c, !.caller = "forkThread"]
       IN  /\ objs' = [objs EXCEPT
                         ![c] = [ForkChild(c, parent)
                                 EXCEPT !.numRefs = @ + 2]]
           /\ hist' = [hist EXCEPT ![c].mappedAtCall = Mapped,
                                   ![c].forked = TRUE,
                                   ![c].parent = parent]
           /\ uaf' = Access(parent, "forkThread:currentThread")
           /\ os' = [os EXCEPT ![h].status = "running",
                               ![h].handle = "joinable"]
           /\ pc' = [pc EXCEPT ![t] = "fork_parent_store",
                               ![h] = "fork_child_set"]
           /\ local' = [local EXCEPT ![t] = [childLocal EXCEPT !.handle = h],
                                     ![h] = childLocal]
           /\ frame' = [frame EXCEPT ![h] = frame[t]]
           /\ contextRuntimeData' =
                  [contextRuntimeData EXCEPT ![h] = contextRuntimeData[t]]
    /\ ret' = [ret EXCEPT ![t] = NoRet]
    /\ UNCHANGED <<threads, threadsMutex, currentThread, fault>>

\* Parent path: childThread->platformThread = platformThread;
ForkParentStore(t) ==
    /\ Running(t) /\ pc[t] = "fork_parent_store"
    /\ objs' = [objs EXCEPT ![local[t].thread].platformThread =
                                local[t].handle]
    /\ uaf' = Access(local[t].thread, "forkThread:platformThread")
    /\ pc' = [pc EXCEPT ![t] = "alloc_lock"]
    /\ UNCHANGED <<threads, threadsMutex, currentThread, contextRuntimeData,
                   os, local, frame, ret, fault, hist, calls>>

\* Parent path: childThread->removeRef(); return threadId;
ForkParentReturn(t) ==
    /\ Running(t) /\ pc[t] = "fork_parent_return"
    /\ LET c == local[t].thread
           newObjs == removeRef(c)
       IN  /\ objs' = newObjs
           /\ hist' = [HistDeleted(newObjs) EXCEPT
                         ![c].parentRet = Append(@, local[t].threadId)]
           /\ uaf' = Access(c, "forkThread:removeRef")
           /\ ret' = [ret EXCEPT ![t] = Ret("forkThread", 0,
                                         local[t].threadId,
                    "none", c)]
    /\ pc' = [pc EXCEPT ![t] = "guest"]
    /\ local' = [local EXCEPT ![t] = NoLocal]
    /\ UNCHANGED <<threads, threadsMutex, currentThread, contextRuntimeData,
                   os, frame, fault, calls>>

\* Child path: setCurrentThread(childThread);
ForkChildSet(t) ==
    /\ Running(t) /\ pc[t] = "fork_child_set"
    /\ currentThread' = [currentThread EXCEPT ![t] = local[t].thread]
    /\ objs' = addRef(local[t].thread, 1)
    /\ uaf' = Access(local[t].thread, "forkThread:setCurrentThread")
    /\ pc' = [pc EXCEPT ![t] = "fork_child_return"]
    /\ UNCHANGED <<threads, threadsMutex, contextRuntimeData, os, local,
                   frame, ret, fault, hist, calls>>

\* Child path: childThread->removeRef(); childThread = nullptr;
\* contextRuntimeData = getContextRuntimeData(newContext); return 0;
ForkChildReturn(t) ==
    /\ Running(t) /\ pc[t] = "fork_child_return"
    /\ LET c == local[t].thread
           newObjs == removeRef(c)
       IN  /\ objs' = newObjs
           /\ hist' = [HistDeleted(newObjs) EXCEPT
                         ![c].childRet = Append(@, 0)]
           /\ uaf' = Access(c, "forkThread:removeRef")
           /\ contextRuntimeData' = [contextRuntimeData EXCEPT ![t] = c]
           /\ ret' = [ret EXCEPT ![t] = Ret("forkThread", 0, 0,
                    "none", c)]
    /\ pc' = [pc EXCEPT ![t] = "guest"]
    /\ local' = [local EXCEPT ![t] = NoLocal]
    /\ UNCHANGED <<threads, threadsMutex, currentThread, os, frame, fault,
                   calls>>

\* ------------------------------------------------ joinThread, detachThread
JoinThread(t, threadId) ==
    /\ Calls(t)
    /\ local' = [local EXCEPT ![t] = [NoLocal EXCEPT
                     !.threadId = threadId, !.caller = "joinThread"]]
    /\ ret' = [ret EXCEPT ![t] = NoRet]
    /\ pc' = [pc EXCEPT ![t] = "remove_lock"]
    /\ UNCHANGED <<threads, threadsMutex, objs, currentThread,
                   contextRuntimeData, os, frame, fault, uaf, hist>>

DetachThread(t, threadId) ==
    /\ Calls(t)
    /\ local' = [local EXCEPT ![t] = [NoLocal EXCEPT
                     !.threadId = threadId, !.caller = "detachThread"]]
    /\ ret' = [ret EXCEPT ![t] = NoRet]
    /\ pc' = [pc EXCEPT ![t] = "remove_lock"]
    /\ UNCHANGED <<threads, threadsMutex, objs, currentThread,
                   contextRuntimeData, os, frame, fault, uaf, hist>>

\* removeThreadById: Lock<Platform::Mutex> threadsLock(threadsMutex);
RemoveLock(t) ==
    /\ Running(t) /\ pc[t] = "remove_lock"
    /\ MutexAvailable(t)
    /\ threadsMutex' = t
    /\ pc' = [pc EXCEPT ![t] = "remove_validate"]
    /\ UNCHANGED <<threads, objs, currentThread, contextRuntimeData, os,
                   local, frame, ret, fault, uaf, hist, calls>>

\* removeThreadById: validateThreadId(threadId); an invalid id throws
\* invalidArgument, and the unwinding releases the lock.
RemoveValidate(t) ==
    /\ Running(t) /\ pc[t] = "remove_validate"
    /\ IF validateThreadId(local[t].threadId)
       THEN /\ pc' = [pc EXCEPT ![t] = "remove_move"]
            /\ UNCHANGED <<threadsMutex, local, ret>>
       ELSE /\ threadsMutex' = threadsLockReleased(t)
            /\ ret' = [ret EXCEPT ![t] = Ret(local[t].caller,
                                          local[t].threadId, 0,
                    "InvalidArgument", NULL)]
            /\ local' = [local EXCEPT ![t] = NoLocal]
            /\ pc' = [pc EXCEPT ![t] = "guest"]
    /\ UNCHANGED <<threads, objs, currentThread, contextRuntimeData, os,
                   frame, fault, uaf, hist, calls>>

\* removeThreadById: thread = std::move(threads[threadId]);
\* threads.removeOrFail(threadId);
RemoveMove(t) ==
    /\ Running(t) /\ pc[t] = "remove_move"
    /\ LET k == local[t].threadId
           o == IF k \in Ids THEN threads[k] ELSE NULL
       IN  IF o = NULL
           THEN /\ fault' = "removeOrFail"
                /\ UNCHANGED <<threads, local, hist>>
           ELSE /\ threads' = removeOrFail(k)
                /\ local' = [local EXCEPT ![t].thread = o]
                /\ hist' = [hist EXCEPT ![o].removed = @ + 1]
                /\ UNCHANGED fault
    /\ pc' = [pc EXCEPT ![t] = "remove_setId"]
    /\ UNCHANGED <<threadsMutex, objs, currentThread, contextRuntimeData, os,
                   frame, ret, uaf, calls>>

\* removeThreadById: wavmAssert(thread->id == Uptr(threadId));
\* thread->id = UINTPTR_MAX; return thread; and the Lock's destructor.
RemoveSetId(t) ==
    /\ Running(t) /\ pc[t] = "remove_setId"
    /\ LET o == local[t].thread IN
       /\ fault' = IF objs[o].id # local[t].threadId THEN "wavmAssert"
                   ELSE fault
       /\ objs' = [objs EXCEPT ![o].id = UINTPTR_MAX]
       /\ uaf' = Access(o, "removeThreadById:id")
    /\ threadsMutex' = threadsLockReleased(t)
    /\ pc' = [pc EXCEPT ![t] = IF local[t].caller = "joinThread"
                               THEN "join_call" ELSE "detach_call"]
    /\ UNCHANGED <<threads, currentThread, contextRuntimeData, os, local,
                   frame, ret, hist, calls>>

\* joinThread: Platform::joinThread(thread->platformThread) is called; a
\* null handle is dereferenced by the platform, which kills the process.
JoinCall(t) ==
    /\ Running(t) /\ pc[t] = "join_call"
    /\ LET o == local[t].thread
           h == objs[o].platformThread
       IN  /\ hist' = [hist EXCEPT ![o].passed = Append(@, h)]
           /\ local' = [local EXCEPT ![t].handle = h]
           /\ fault' = IF h = NULL THEN "nullHandle" ELSE fault
           /\ uaf' = Access(o, "joinThread:platformThread")
    /\ pc' = [pc EXCEPT ![t] = "join_wait"]
    /\ UNCHANGED <<threads, threadsMutex, objs, currentThread,
                   contextRuntimeData, os, frame, ret, calls>>

\* joinThread: Platform::joinThread returns the exit code once the target OS
\* thread has terminated.
JoinWait(t) ==
    /\ Running(t) /\ pc[t] = "join_wait"
    /\ LET h == local[t].handle IN
       /\ os[h].status = "terminated"
       /\ local' = [local EXCEPT ![t].result = os[h].exitCode]
       /\ os' = [os EXCEPT ![h].handle = "joined"]
    /\ pc' = [pc EXCEPT ![t] = "release"]
    /\ UNCHANGED <<threads, threadsMutex, objs, currentThread,
                   contextRuntimeData, frame, ret, fault, uaf, hist, calls>>

\* detachThread: Platform::detachThread(thread->platformThread);
DetachCall(t) ==
    /\ Running(t) /\ pc[t] = "detach_call"
    /\ LET o == local[t].thread
           h == objs[o].platformThread
       IN  /\ hist' = [hist EXCEPT ![o].passed = Append(@, h)]
           /\ local' = [local EXCEPT ![t].handle = h]
           /\ fault' = IF h = NULL THEN "nullHandle" ELSE fault
           /\ os' = IF h = NULL THEN os
                    ELSE [os EXCEPT ![h].handle = "detached"]
           /\ uaf' = Access(o, "detachThread:platformThread")
    /\ pc' = [pc EXCEPT ![t] = "release"]
    /\ UNCHANGED <<threads, threadsMutex, objs, currentThread,
                   contextRuntimeData, frame, ret, calls>>

\* joinThread, detachThread: thread->platformThread = nullptr; return;
\* the IntrusiveSharedPtr `thread` goes out of scope and releases its
\* reference.
ReleaseAndReturn(t) ==
    /\ Running(t) /\ pc[t] = "release"
    /\ LET o == local[t].thread
           newObjs == [removeRef(o) EXCEPT ![o].platformThread = NULL]
       IN  /\ objs' = newObjs
           /\ hist' = HistDeleted(newObjs)
           /\ uaf' = Access(o, local[t].caller)
           /\ ret' = [ret EXCEPT ![t] = Ret(local[t].caller,
                                         local[t].threadId,
                                         local[t].result,
                    "none", o)]
    /\ pc' = [pc EXCEPT ![t] = "guest"]
    /\ local' = [local EXCEPT ![t] = NoLocal]
    /\ UNCHANGED <<threads, threadsMutex, currentThread, contextRuntimeData,
                   os, frame, fault, calls>>

\* ----------------------------------------------------------- specification
Next ==
    \E t \in OSThreads :
        \/ \E f \in Funcs, a \in Args : CreateThread(t, f, a)
        \/ AllocLock(t)
        \/ AllocAdd(t)
        \/ CreateSpawn(t)
        \/ CreateStore(t)
        \/ CreateReturn(t)
        \/ EntrySet(t)
        \/ EntryRemoveRef(t)
        \/ EntryReturn(t)
        \/ \E code \in ExitCodes : ExitThread(t, code)
        \/ ForkThread(t)
        \/ ForkParentStore(t)
        \/ ForkParentReturn(t)
        \/ ForkChildSet(t)
        \/ ForkChildReturn(t)
        \/ \E id \in IdArgs : JoinThread(t, id)
        \/ \E id \in IdArgs : DetachThread(t, id)
        \/ RemoveLock(t)
        \/ RemoveValidate(t)
        \/ RemoveMove(t)
        \/ RemoveSetId(t)
        \/ JoinCall(t)
        \/ JoinWait(t)
        \/ DetachCall(t)
        \/ ReleaseAndReturn(t)

Spec == Init /\ [][Next]_vars

\* A step of OS thread t inside an intrinsic or inside threadEntry: native
\* code that runs on once the OS schedules the thread.  The steps left out
\* are WebAssembly code's own: calling an intrinsic, returning from the
\* entry function.
Internal(t) ==
    \/ AllocLock(t) \/ AllocAdd(t)
    \/ CreateSpawn(t) \/ CreateStore(t) \/ CreateReturn(t)
    \/ EntrySet(t) \/ EntryRemoveRef(t)
    \/ ForkParentStore(t) \/ ForkParentReturn(t)
    \/ ForkChildSet(t) \/ ForkChildReturn(t)
    \/ RemoveLock(t) \/ RemoveValidate(t) \/ RemoveMove(t) \/ RemoveSetId(t)
    \/ JoinCall(t) \/ JoinWait(t) \/ DetachCall(t) \/ ReleaseAndReturn(t)

\* The program on a machine that does not stop while native code can run:
\* as long as some OS thread has such a step to make, one is made.  This is
\* less than any scheduler gives (each runnable OS thread runs), and it is
\* enough here, where a run makes a bounded number of calls.
LiveSpec == Spec /\ WF_vars(\E t \in OSThreads : Internal(t))

\* ------------------------------------------------------------------ claims
\* OS thread t is inside joinThread/detachThread and holds Thread o in its
\* local IntrusiveSharedPtr.
HolderPcs == {"remove_setId", "join_call", "join_wait", "detach_call",
              "release"}
Holds(t, o) == pc[t] \in HolderPcs /\ local[t].thread = o
\* Thread o carries an assigned id (its id is not the "unregistered" value).
HasId(o) == objs[o].state = "live" /\ objs[o].id # UINTPTR_MAX
InvalidId(k) == k = 0 \/ k \notin Mapped
BadEntry(f) == f = "null" \/ FunctionTypeOf(f) # <<"i64", "i32">>

\* C1: in every reachable state the ids of the registered Thread objects are
\* pairwise distinct and none is zero: a registry entry k holds a Thread
\* whose id is k, and no two Threads carry the same assigned id.
C1_IdsUniqueNonzero ==
    /\ \A k \in Ids : threads[k] # NULL =>
          /\ k # 0
          /\ objs[threads[k]].id = k
          /\ hist[threads[k]].allocId = k
    /\ \A o \in Objs : HasId(o) =>
          /\ objs[o].id # 0
          /\ \A p \in Objs : (p # o /\ HasId(p)) => objs[p].id # objs[o].id

\* C1 witness: two Threads are registered at once.
C1_Witness ==
    /\ Cardinality(Mapped) = 2
    /\ \E o, p \in Registered : o # p /\ objs[o].id # objs[p].id

\* C2: a joinThread that returned did so after the target OS thread
\* terminated, and returned the target's exit code: the entry function's
\* result (84 for f(x) = x*2 and argument 42) or the code given to exitThread.
C2_JoinReturnsExitCode ==
    \A t \in OSThreads :
        (ret[t].op = "joinThread" /\ ret[t].err = "none") =>
            LET o == ret[t].obj
                h == HandleFor(o)
            IN  /\ os[h].status = "terminated"
                /\ ret[t].val = os[h].exitCode
                /\ os[h].exitKind = "return" =>
                      /\ ret[t].val = Apply(objs[o].entryFunction,
                                           objs[o].argument)
                      /\ (objs[o].entryFunction = "dbl"
                          /\ objs[o].argument = 42) => ret[t].val = 84
                /\ os[h].exitKind = "exit" => ret[t].val \in ExitCodes

\* C2 witness: createThread(dbl, 42) was joined and the join returned 84.
C2_Witness ==
    \E t \in OSThreads :
        /\ ret[t].op = "joinThread" /\ ret[t].err = "none"
        /\ ret[t].val = 84
        /\ ~hist[ret[t].obj].forked
        /\ os[HandleFor(ret[t].obj)].exitKind = "return"

\* C3: joinThread/detachThread on id 0 or on an id that is not mapped (never
\* allocated, or removed before) throws InvalidArgument, changes neither the
\* registry nor any Thread object nor any platform thread, and releases the
\* mutex; and no Thread is ever unmapped twice or deleted twice.
C3_InvalidIdFails ==
    [][/\ \A t \in OSThreads :
            (/\ pc[t] = "remove_validate"
             /\ pc'[t] # "remove_validate"
             /\ InvalidId(local[t].threadId)) =>
                /\ ret'[t].err = "InvalidArgument"
                /\ ret'[t].op = local[t].caller
                /\ pc'[t] = "guest"
                /\ threadsMutex' = NULL
                /\ UNCHANGED <<threads, objs, os, hist, fault>>
       /\ \A o \in Objs : hist'[o].removed <= 1 /\ hist'[o].destroyed <= 1
      ]_vars

\* C3 witness: detachThread(k) succeeded and a later joinThread(k) failed
\* with InvalidArgument.
C3_Witness ==
    \E t \in OSThreads, o \in Objs :
        /\ ret[t].op = "joinThread" /\ ret[t].err = "InvalidArgument"
        /\ ret[t].arg = hist[o].allocId
        /\ hist[o].removed = 1
        /\ os[HandleFor(o)].handle = "detached"

\* C4: of the joinThread/detachThread calls racing on one registered id,
\* one only obtains the Thread: no two calls hold the same Thread, a call
\* that passed validation finds its id still mapped when it unmaps it, and
\* the code between taking and releasing the mutex runs in one OS thread at
\* a time.
C4_RemoveAtomic ==
    /\ \A t, u \in OSThreads, o \in Objs :
           (Holds(t, o) /\ Holds(u, o)) => t = u
    /\ \A t \in OSThreads : pc[t] \in HolderPcs => local[t].thread # NULL
    /\ \A t \in OSThreads :
           pc[t] = "remove_move" => ~InvalidId(local[t].threadId)
    /\ \A t \in OSThreads :
           pc[t] \in {"alloc_add", "remove_validate", "remove_move",
                      "remove_setId"} => threadsMutex = t
    /\ \A o \in Objs : hist[o].removed <= 1

\* C4 witness: one call has unmapped id k and holds its Thread, while another
\* call on the same k waits for the mutex.
C4_Witness ==
    \E t, u \in OSThreads :
        /\ t # u
        /\ pc[t] = "remove_setId" /\ pc[u] = "remove_lock"
        /\ local[t].threadId = local[u].threadId

\* C5: createThread with a null entry function or one whose type is not
\* (i32)->i64 throws SignatureMismatch and changes nothing else: no Thread,
\* no id, no registry entry, no OS thread.
C5_SignatureMismatchNoEffect ==
    [][\A t \in OSThreads, f \in Funcs, a \in Args :
          (BadEntry(f) /\ CreateThread(t, f, a)) =>
              /\ ret'[t].op = "createThread"
              /\ ret'[t].err = "SignatureMismatch"
              /\ UNCHANGED <<threads, threadsMutex, objs, currentThread,
                             contextRuntimeData, os, pc, local, frame, fault,
                             hist>>
      ]_vars

\* C5 witness: a createThread failed with SignatureMismatch and no Thread
\* object exists.
C5_Witness ==
    \E t \in OSThreads :
        /\ ret[t].op = "createThread" /\ ret[t].err = "SignatureMismatch"
        /\ FreeSlots = Objs
        /\ Mapped = {}

\* OS thread t is inside the forkThread call that made Thread c.
InFork(t, c) == local[t].caller = "forkThread" /\ local[t].thread = c
SeqRange(q) == {q[i] : i \in 1..Len(q)}

\* The parts of C6 that do not depend on when the id is fresh: at most one
\* return 0 on the child's stack and one nonzero id on the parent's, exactly
\* one of each once both continuations are back in WebAssembly code, and the
\* child's entry function and argument are the parent's.
ForkReturns(c) ==
    /\ Len(hist[c].childRet) <= 1
    /\ Len(hist[c].parentRet) <= 1
    /\ SeqRange(hist[c].childRet) \subseteq {0}
    /\ 0 \notin SeqRange(hist[c].parentRet)
    /\ ((\A t \in OSThreads : ~InFork(t, c)) /\ fault = "none") =>
           (Len(hist[c].childRet) = 1 /\ Len(hist[c].parentRet) = 1)
    /\ objs[c].entryFunction = objs[hist[c].parent].entryFunction
    /\ objs[c].argument = objs[hist[c].parent].argument

\* C6 as stated: each forkThread returns 0 once in the child and once, in
\* the parent, a nonzero id that was not registered before the call; the
\* child's entry function and argument equal the parent's.
C6_Original_IdUnregisteredAtCall ==
    \A c \in Objs : hist[c].forked =>
        /\ ForkReturns(c)
        /\ SeqRange(hist[c].parentRet) \cap hist[c].mappedAtCall = {}

\* C6 amended: as C6, but the id the parent gets is the one under which the
\* child was registered, and it was unmapped at the moment allocateThreadId
\* assigned it (it may have been registered when the call began).
C6_ForkReturnsFreshAtAllocation ==
    [][/\ \A c \in Objs : hist'[c].forked =>
             /\ ForkReturns(c)'
             /\ SeqRange(hist'[c].parentRet) \subseteq {hist'[c].allocId}
       /\ \A o \in Objs : hist'[o].allocId # hist[o].allocId =>
             /\ hist'[o].allocId \in Ids
             /\ threads[hist'[o].allocId] = NULL
             /\ threads'[hist'[o].allocId] = o
      ]_vars

\* C6 witness: both continuations of a forkThread have returned, and the id
\* the parent got was registered (to another Thread) when the call began.
C6_Witness ==
    \E c \in Objs :
        /\ hist[c].forked
        /\ Len(hist[c].childRet) = 1 /\ Len(hist[c].parentRet) = 1
        /\ hist[c].parentRet[1] \in hist[c].mappedAtCall
        /\ hist[c].parentRet[1] = hist[c].allocId

\* C7: the step of a joinThread/detachThread that unmaps id k leaves k free
\* in the registry, so that the allocator's next index is k or a smaller
\* free one (never the failure index); and the Thread a successful
\* join/detach was about is not in the registry any more.
C7_FreedIdReusable ==
    [][/\ \A t \in OSThreads :
            (pc[t] = "remove_move" /\ pc'[t] = "remove_setId"
             /\ fault' = "none") =>
                LET k == local[t].threadId IN
                /\ threads[k] # NULL
                /\ threads'[k] = NULL
                /\ IndexMapAdd' # 0
                /\ IndexMapAdd' <= k
       /\ \A t \in OSThreads :
            (ret'[t].op \in {"joinThread", "detachThread"}
             /\ ret'[t].err = "none") => ret'[t].obj \notin Registered'
      ]_vars

\* C7 witness: an id that was freed by a join/detach has been handed out
\* again, to another Thread.
C7_Witness ==
    \E o, p \in Objs :
        /\ o # p
        /\ hist[o].removed = 1
        /\ hist[p].allocId = hist[o].allocId
        /\ threads[hist[p].allocId] = p

\* C8: a Thread is deleted only by the decrement that takes its count to
\* zero: while it is in the registry, or is some OS thread's currentThread,
\* or is held by a joinThread/detachThread call, it is alive and its count
\* is at least 1; a deleted Thread has count zero and was deleted once.
C8_AliveWhileReferenced ==
    \A o \in Objs :
        /\ (\/ o \in Registered
            \/ \E t \in OSThreads : currentThread[t] = o
            \/ \E t \in OSThreads : Holds(t, o)) =>
               (objs[o].state = "live" /\ objs[o].numRefs >= 1)
        /\ objs[o].state = "destroyed" =>
               (objs[o].numRefs = 0 /\ hist[o].destroyed = 1)
        /\ objs[o].state = "live" => hist[o].destroyed = 0

\* C8 witness: detachThread has returned and the detached OS thread still
\* runs with the Thread as its currentThread, kept alive by that reference.
C8_Witness ==
    \E t \in OSThreads :
        /\ ret[t].op = "detachThread" /\ ret[t].err = "none"
        /\ LET o == ret[t].obj IN
           /\ os[HandleFor(o)].status = "running"
           /\ currentThread[HandleFor(o)] = o
           /\ objs[o].state = "live" /\ objs[o].numRefs = 1

\* C9: a successful createThread returns the nonzero id under which
\* allocateThreadId registered its Thread, never the unregistered sentinel.
C9_CreateReturnsAllocatedId ==
    \A t \in OSThreads :
        (ret[t].op = "createThread" /\ ret[t].err = "none") =>
            /\ ret[t].val = hist[ret[t].obj].allocId
            /\ ret[t].val # 0
            /\ ret[t].val # UINTPTR_MAX

\* C10: a Thread that is in the registry has the handle of its OS thread;
\* the handle joinThread/detachThread passes to the platform is that handle,
\* never null; after the join/detach the Thread's handle is null.
C10_HandleValidUntilJoined ==
    \A o \in Objs :
        /\ SeqRange(hist[o].passed) \subseteq {HandleFor(o)}
        /\ \A t \in OSThreads :
              (ret[t].op \in {"joinThread", "detachThread"}
               /\ ret[t].err = "none" /\ ret[t].obj = o
               /\ objs[o].state = "live") => objs[o].platformThread = NULL

\* ---- owners of a Thread object
\* The three owner roles of the Thread o: the registry slots that hold it,
\* the OS threads whose currentThread it is, and the joinThread/detachThread
\* calls that hold it in their local IntrusiveSharedPtr.
RegistryOwners(o) == {k \in Ids : threads[k] = o}
LocatorOwners(o) == {t \in OSThreads : currentThread[t] = o}
CallOwners(o) == {t \in OSThreads : Holds(t, o)}
OwnerRoles(o) ==
    Cardinality(RegistryOwners(o)) + Cardinality(LocatorOwners(o))
        + Cardinality(CallOwners(o))
\* References counted for a raw Thread* that is on its way: the one
\* createThread takes for the pointer it passes to threadEntry (until
\* threadEntry releases it), and the two forkThread takes before the fork,
\* one for each copy of the stack (until each continuation releases its own).
SpawnPointers(o) ==
    {t \in OSThreads : /\ pc[t] \in {"entry_set", "entry_removeRef"}
                       /\ local[t].thread = o}
ForkPointers(o) ==
    {t \in OSThreads :
        /\ pc[t] \in {"fork_parent_store", "alloc_lock", "alloc_add",
                      "fork_parent_return", "fork_child_set",
                      "fork_child_return"}
        /\ InFork(t, o)}
RawPointers(o) == Cardinality(SpawnPointers(o)) + Cardinality(ForkPointers(o))

\* C11 as stated: in every state, intermediate ones included, the count of
\* a Thread equals the number of owner roles in effect for it, the roles
\* being exactly registry slot, currentThread of an OS thread, and a holder
\* inside joinThread/detachThread.
C11_Original_CountIsOwnerRoles ==
    \A o \in Objs : objs[o].state = "live" => objs[o].numRefs = OwnerRoles(o)

\* C11 amended: the count of a Thread equals the number of owner roles in
\* effect plus the references taken for raw pointers on their way (the
\* pointer createThread passes to threadEntry, the two stack copies of a
\* forkThread); a deleted Thread has no owner and no such pointer; every
\* increment is matched by one decrement, so that the count never wraps
\* below zero, on the InvalidArgument path too, which takes no reference.
C11_CountIsOwnersAndRawPointers ==
    /\ \A o \in Objs : objs[o].state = "live" =>
          /\ objs[o].numRefs = OwnerRoles(o) + RawPointers(o)
          /\ objs[o].numRefs <= 4
    /\ \A o \in Objs : objs[o].state # "live" =>
          /\ objs[o].numRefs = 0
          /\ OwnerRoles(o) = 0 /\ RawPointers(o) = 0
    /\ \A t \in OSThreads : ret[t].err = "InvalidArgument" =>
          /\ ret[t].obj = NULL
          /\ pc[t] \in {"guest", "done"} => local[t].thread = NULL

\* C11 witness: a Thread is counted three times, once for the registry, once
\* as its OS thread's currentThread and once for the pointer threadEntry
\* has not released yet.
C11_Witness ==
    \E o \in Objs :
        /\ objs[o].state = "live" /\ objs[o].numRefs = 3
        /\ Cardinality(RegistryOwners(o)) = 1
        /\ Cardinality(LocatorOwners(o)) = 1
        /\ Cardinality(SpawnPointers(o)) = 1

\* ---- full lifecycle
\* The OS thread of Thread o has terminated and a joinThread/detachThread
\* that removed o's id has returned.
LifecycleOver(o) ==
    /\ os[HandleFor(o)].status = "terminated"
    /\ hist[o].removed = 1
    /\ CallOwners(o) = {}
Destroyed(o) == objs[o].state = "destroyed" /\ hist[o].destroyed = 1

\* C12 as stated: once the OS thread of a Thread has terminated (by return
\* from the entry function or by exitThread) and a join/detach of its id
\* has returned, the Thread is eventually deleted, once.
C12_Original_LifecycleEndsInDeletion ==
    \A o \in Objs : (LifecycleOver(o) /\ fault = "none") ~> Destroyed(o)

\* C12, the part that does not depend on Platform::exitThread: the same,
\* for a Thread whose OS thread's thread_local currentThread was destroyed
\* when the OS thread ended, as it is when the entry function returns.
C12_LifecycleEndsInDeletionIfLocatorDestroyed ==
    \A o \in Objs :
        (LifecycleOver(o) /\ LocatorOwners(o) = {} /\ fault = "none")
            ~> Destroyed(o)

\* C12: an OS thread that ended by returning from its entry function has no
\* currentThread left.
C12_ReturnDestroysLocator ==
    \A t \in OSThreads :
        (os[t].status = "terminated" /\ os[t].exitKind = "return") =>
            currentThread[t] = NULL

\* C12 witness: a forked Thread whose OS thread returned from the entry
\* function and was joined has been deleted.
C12_Witness ==
    \E o \in Objs :
        /\ hist[o].forked /\ LifecycleOver(o)
        /\ os[HandleFor(o)].exitKind = "return"
        /\ os[HandleFor(o)].handle = "joined"
        /\ Destroyed(o)

\* ---- registration
\* OS thread t returns from forkThread on the parent's stack.
ForkParentReturns(t) == pc[t] = "fork_parent_return" /\ pc'[t] = "guest"
\* The OS thread of the Thread o made by createThread has been spawned.
Spawned(o) ==
    /\ objs[o].state # "free" /\ ~hist[o].forked
    /\ os[HandleFor(o)].status # "unused"

\* C13 as stated: createThread's Thread is registered before its OS thread
\* is spawned; forkThread's child Thread is registered before the child
\* continuation returns 0; and when the parent continuation returns k, the
\* registry maps k to the child Thread.
C13_Original_RegisteredBeforeChildResumes ==
    [][/\ \A o \in Objs : Spawned(o)' => hist'[o].allocId # 0
       /\ \A c \in Objs : (hist'[c].forked /\ Len(hist'[c].childRet) = 1) =>
             hist'[c].allocId # 0
       /\ \A t \in OSThreads : ForkParentReturns(t) =>
             threads'[ret'[t].val] = local[t].thread
      ]_vars

\* C13 amended: createThread registers its Thread before it spawns the OS
\* thread; forkThread registers the child Thread in the parent continuation,
\* after the fork and before that continuation returns, under the id it
\* returns (the child continuation may return 0 before that); a Thread that
\* is not registered yet is in the hands of the call that made it, which
\* does nothing else before registering it; once registered, a Thread stays
\* in the registry under its id until a joinThread/detachThread removes it,
\* which may be before the parent continuation returns the id.
C13_RegisteredBeforeSpawnAndParentReturn ==
    [][/\ \A o \in Objs : Spawned(o)' => hist'[o].allocId # 0
       /\ \A c \in Objs : (hist'[c].forked /\ Len(hist'[c].parentRet) = 1) =>
             hist'[c].allocId = hist'[c].parentRet[1]
       /\ \A t \in OSThreads : ForkParentReturns(t) =>
             LET c == local[t].thread IN
             /\ ret'[t].val = hist'[c].allocId
             /\ threads'[ret'[t].val] = c \/ hist'[c].removed = 1
       /\ \A o \in Objs : (objs'[o].state = "live" /\ hist'[o].allocId = 0) =>
             /\ o \notin Registered'
             /\ \E t \in OSThreads :
                   /\ local'[t].thread = o
                   /\ pc'[t] \in {"fork_parent_store", "alloc_lock",
                                  "alloc_add"}
       /\ \A o \in Objs : (hist'[o].allocId # 0 /\ hist'[o].removed = 0) =>
             threads'[hist'[o].allocId] = o
      ]_vars

\* C13 witness: the child continuation of a forkThread has returned 0 and
\* the child Thread is not in the registry yet.
C13_Witness ==
    \E c \in Objs :
        /\ hist[c].forked /\ Len(hist[c].childRet) = 1
        /\ hist[c].allocId = 0 /\ c \notin Registered
        /\ objs[c].state = "live"

\* ---- registry and ids
\* C14: whenever threadsMutex is free, a registry entry k holds a live Thread
\* whose id is k, no Thread is in the registry under two indices and no index
\* is the id of two Threads, and a Thread that is not in the registry (not
\* registered yet, or removed by joinThread/detachThread) has the id
\* UINTPTR_MAX; the assertion thread->id == threadId of removeThreadById
\* never fails.
C14_RegistryIdConsistent ==
    /\ fault # "wavmAssert"
    /\ threadsMutex = NULL =>
          /\ \A k \in Ids : threads[k] # NULL =>
                /\ objs[threads[k]].state = "live"
                /\ objs[threads[k]].id = k
          /\ \A j, k \in Ids :
                (threads[j] # NULL /\ threads[j] = threads[k]) => j = k
          /\ \A o, p \in Objs :
                (HasId(o) /\ HasId(p) /\ objs[o].id = objs[p].id) => o = p
          /\ \A o \in Objs :
                (objs[o].state = "live" /\ o \notin Registered) =>
                    objs[o].id = UINTPTR_MAX

\* C14 witness: with the mutex free, one Thread is in the registry under its
\* id and another, removed by a detachThread that has returned, is alive
\* with the id UINTPTR_MAX.
C14_Witness ==
    /\ threadsMutex = NULL
    /\ \E o, p \in Objs :
          /\ o # p
          /\ o \in Registered /\ threads[objs[o].id] = o
          /\ objs[p].state = "live" /\ p \notin Registered
          /\ hist[p].removed = 1 /\ CallOwners(p) = {}
          /\ objs[p].id = UINTPTR_MAX

\* ---- the mutex and blocking
\* The code of allocateThreadId and removeThreadById in the scope of
\* threadsLock.
LockedPcs == {"alloc_add", "remove_validate", "remove_move", "remove_setId"}
\* Positions inside an intrinsic other than the wait of Platform::joinThread.
CallPcs ==
    LockedPcs \cup
    {"alloc_lock", "create_spawn", "create_store", "create_return",
     "fork_parent_store", "fork_parent_return", "fork_child_set",
     "fork_child_return", "remove_lock", "join_call", "detach_call",
     "release"}
\* OS thread t waits in Platform::joinThread for an OS thread that runs.
BlockedInJoin(t) ==
    /\ pc[t] = "join_wait" /\ local[t].handle # NULL
    /\ os[local[t].handle].status = "running"

\* C15: threadsMutex is held only inside allocateThreadId and
\* removeThreadById, so it is free whenever no OS thread is there: it is not
\* held by a joinThread that calls or waits in Platform::joinThread, nor by
\* a detachThread after removeThreadById, nor after removeThreadById threw
\* InvalidArgument, nor by an OS thread that has ended; hence every call of
\* an intrinsic, whatever other OS threads are blocked in joinThread, runs
\* on until it returns or is itself waiting in Platform::joinThread: every
\* behaviour reaches a point from which no OS thread is at any other place
\* inside an intrinsic (or the process has died).
C15_MutexNotHeldAcrossBlocking ==
    /\ [](\A t \in OSThreads :
            /\ threadsMutex = t => pc[t] \in LockedPcs
            /\ pc[t] \in LockedPcs => threadsMutex = t
            /\ ret[t].err = "InvalidArgument" /\ pc[t] = "guest" =>
                  threadsMutex # t)
    /\ []((\A t \in OSThreads : pc[t] \notin LockedPcs) =>
              threadsMutex = NULL)
    /\ <>[](fault # "none" \/ \A t \in OSThreads : pc[t] \notin CallPcs)

\* C15 witness: one OS thread is blocked in joinThread on a running target
\* while another is inside allocateThreadId or removeThreadById and holds
\* the mutex.
C15_Witness ==
    \E u, t \in OSThreads :
        /\ u # t
        /\ BlockedInJoin(u)
        /\ threadsMutex = t /\ pc[t] \in LockedPcs
        /\ fault = "none"

\* ---- what forkThread touches
\* A step of forkThread that OS thread t makes on the parent's stack.
ForkParentStep(t) ==
    \/ ForkThread(t) \/ ForkParentStore(t) \/ ForkParentReturn(t)
    \/ (AllocLock(t) \/ AllocAdd(t)) /\ local[t].caller = "forkThread"
\* A step of forkThread that OS thread t makes on the child's stack.
ForkChildStep(t) == ForkChildSet(t) \/ ForkChildReturn(t)
\* The child Thread of the forkThread call OS thread t is in or begins.
ForkChildOf(t) ==
    IF local[t].caller = "forkThread" THEN local[t].thread ELSE NewObj
\* Locator and context of every OS thread but the child's are left alone.
OthersUntouched(c) ==
    \A u \in OSThreads \ {HandleFor(c)} :
        /\ currentThread'[u] = currentThread[u]
        /\ contextRuntimeData'[u] = contextRuntimeData[u]

\* C16: no step of a forkThread call changes the parent Thread (count, id,
\* entry function, argument, handle, context) or the currentThread and the
\* context of the parent OS thread or of any OS thread but the child's; the
\* child continuation returns 0 with the child Thread as its currentThread
\* and the cloned context, which is not the parent's, as its context.
C16_ForkTouchesChildOnly ==
    [][\A t \in OSThreads :
          /\ ForkParentStep(t) =>
                LET parent == currentThread[t] IN
                /\ parent # NULL
                /\ objs'[parent] = objs[parent]
                /\ currentThread' = currentThread
                /\ HandleFor(ForkChildOf(t)) # t
                /\ OthersUntouched(ForkChildOf(t))
          /\ ForkChildStep(t) =>
                LET c == local[t].thread
                    parent == hist[c].parent
                IN  /\ objs'[parent] = objs[parent]
                    /\ HandleFor(c) = t
                    /\ OthersUntouched(c)
          /\ ForkChildReturn(t) =>
                LET c == local[t].thread
                    parent == hist[c].parent
                IN  /\ ret'[t].op = "forkThread" /\ ret'[t].val = 0
                    /\ currentThread'[t] = c
                    /\ contextRuntimeData'[t] = objs'[c].context
                    /\ contextRuntimeData'[t] # contextRuntimeData[t]
                    /\ objs'[c].context # objs'[parent].context
      ]_vars

\* C16 witness: the child continuation has returned 0 and runs with the
\* child Thread and the cloned context, while the parent OS thread has the
\* parent Thread and the original context.
C16_Witness ==
    \E c \in Objs :
        /\ hist[c].forked /\ Len(hist[c].childRet) = 1
        /\ pc[HandleFor(c)] = "guest"
        /\ currentThread[HandleFor(c)] = c
        /\ contextRuntimeData[HandleFor(c)] = objs[c].context
        /\ LET parent == hist[c].parent IN
           /\ objs[parent].state = "live"
           /\ currentThread[HandleFor(parent)] = parent
           /\ contextRuntimeData[HandleFor(parent)] = objs[parent].context
           /\ objs[parent].context # objs[c].context

\* ---- accesses to deleted Threads
\* C17: no statement reads or writes a field of a Thread after the Thread
\* was deleted: the accesses createThread makes through its raw pointer
\* after the spawn (the store of the handle, the load of the id) and those
\* of joinThread/detachThread after the platform call all hit a live Thread.
C17_NoAccessAfterDestruction == uaf = {}

\* ---- allocateThreadId
\* OS thread t executes the body of allocateThreadId for the Thread o.
Allocates(t, o) ==
    /\ pc[t] = "alloc_add" /\ pc'[t] # "alloc_add"
    /\ local[t].thread = o

\* C18: allocateThreadId, holding threadsMutex, gives the Thread the smallest
\* positive index that the registry does not map (a freed index before any
\* larger unused one), stores the Thread under that index and returns it;
\* the index is never zero, and a Thread gets an id only in this way.
C18_AllocatesSmallestFreeId ==
    [][/\ \A t \in OSThreads, o \in Objs : Allocates(t, o) =>
             LET k == objs'[o].id IN
             /\ threadsMutex = t
             /\ k \in Ids /\ k >= MinIndex /\ k # 0 /\ k # UINTPTR_MAX
             /\ threads[k] = NULL
             /\ \A j \in MinIndex..(k - 1) : threads[j] # NULL
             /\ threads'[k] = o
             /\ \A j \in Ids \ {k} : threads'[j] = threads[j]
             /\ hist'[o].allocId = k
             /\ local[t].caller = "forkThread" => local'[t].threadId = k
             /\ fault' = "none"
       /\ \A o \in Objs : hist'[o].allocId # hist[o].allocId =>
             \E t \in OSThreads : Allocates(t, o)
       /\ fault' # "errorUnless"
      ]_vars

\* C18 witness: an index freed by a joinThread/detachThread has been given
\* to another Thread while a larger index has never been used.
C18_Witness ==
    \E o, p \in Objs, k \in Ids :
        /\ o # p
        /\ hist[o].removed = 1 /\ hist[o].allocId = k
        /\ hist[p].allocId = k /\ threads[k] = p /\ objs[p].id = k
        /\ \E j \in Ids : j > k /\ threads[j] = NULL
                          /\ \A q \in Objs : hist[q].allocId # j

====
